---- MODULE Spec2Model ----
(***************************************************************************)
(* Model of the thrawns-gambit bot: the launcher and the environment       *)
(* check, the SwgohComlink client (payload builders, the central _post     *)
(* dispatch with its HMAC signing), the on_ready event and the             *)
(* localisation pipeline it drives.                                        *)
(*                                                                         *)
(* Python values are tagged records [t, v]; byte strings that are only     *)
(* concatenated are TLA+ strings; texts that are scanned (the localisation *)
(* file) are sequences of tokens.  SHA-256/HMAC and MD5 are modelled as    *)
(* injective symbolic terms over their inputs.                             *)
(***************************************************************************)
EXTENDS Integers, Sequences, FiniteSets, TLC

(***************************************************************************)
(* Bounds                                                                  *)
(***************************************************************************)
MaxOnReady == 2      \* number of on_ready events (first connect + reconnects)
MaxLocaleLen == 5    \* length, in tokens, of a localisation text (SpecParse)

(***************************************************************************)
(* Python values                                                           *)
(***************************************************************************)
PyNone == [t |-> "none", v |-> 0]
PyStr(s) == [t |-> "str", v |-> s]
PyInt(n) == [t |-> "int", v |-> n]
PyBool(b) == [t |-> "bool", v |-> b]
PyDict(items) == [t |-> "dict", v |-> items]
PyList(elems) == [t |-> "list", v |-> elems]
EmptyDict == PyDict(<<>>)

\* Python truth value testing, as used by `if x:` / `not x` / `a and b`
Truthy(x) ==
    CASE x.t = "none" -> FALSE
      [] x.t = "bool" -> x.v
      [] x.t = "int" -> x.v # 0
      [] x.t = "str" -> x.v # ""
      [] x.t = "dict" -> Len(x.v) > 0
      [] x.t = "list" -> Len(x.v) > 0

\* f"{x}" for the scalar values the builders format
Fmt(x) ==
    CASE x.t = "none" -> "None"
      [] x.t = "bool" -> IF x.v THEN "True" ELSE "False"
      [] x.t = "int" -> ToString(x.v)
      [] x.t = "str" -> x.v

IsInstanceStr(x) == x.t = "str"
\* isinstance(x, int): bool is a subclass of int in Python
IsInstanceInt(x) == x.t \in {"int", "bool"}

DictHas(d, k) == \E i \in 1..Len(d.v) : d.v[i][1] = k
DictGet(d, k) == d.v[CHOOSE i \in 1..Len(d.v) : d.v[i][1] = k][2]
\* d[k] = val: replaces in place when the key exists, appends otherwise
DictSet(d, k, val) ==
    IF DictHas(d, k)
    THEN PyDict([i \in 1..Len(d.v) |-> IF d.v[i][1] = k THEN <<k, val>> ELSE d.v[i]])
    ELSE PyDict(Append(d.v, <<k, val>>))
DictKeys(d) == {d.v[i][1] : i \in 1..Len(d.v)}

(***************************************************************************)
(* json.dumps(obj, separators=(isep, ksep))                                *)
(***************************************************************************)
RECURSIVE Dumps(_, _, _)
RECURSIVE DumpsItems(_, _, _, _)
RECURSIVE DumpsElems(_, _, _, _)
DumpsItems(items, i, isep, ksep) ==
    IF i > Len(items) THEN ""
    ELSE (IF i > 1 THEN isep ELSE "")
         \o "\"" \o items[i][1] \o "\"" \o ksep \o Dumps(items[i][2], isep, ksep)
         \o DumpsItems(items, i + 1, isep, ksep)
DumpsElems(elems, i, isep, ksep) ==
    IF i > Len(elems) THEN ""
    ELSE (IF i > 1 THEN isep ELSE "")
         \o Dumps(elems[i], isep, ksep)
         \o DumpsElems(elems, i + 1, isep, ksep)
Dumps(x, isep, ksep) ==
    CASE x.t = "none" -> "null"
      [] x.t = "bool" -> IF x.v THEN "true" ELSE "false"
      [] x.t = "int" -> ToString(x.v)
      [] x.t = "str" -> "\"" \o x.v \o "\""
      [] x.t = "dict" -> "{" \o DumpsItems(x.v, 1, isep, ksep) \o "}"
      [] x.t = "list" -> "[" \o DumpsElems(x.v, 1, isep, ksep) \o "]"

\* dumps(payload, separators=(",", ":"))
DumpsCompact(x) == Dumps(x, ",", ":")
\* dumps(x) with the default separators (", ", ": ")
DumpsDefault(x) == Dumps(x, ", ", ": ")

(***************************************************************************)
(* Environment (utils/env.py) and launcher                                 *)
(***************************************************************************)
\* Env.__annotations__, in declaration order
EnvAnnotations ==
    << "ACCESS_KEY", "BOT_TOKEN", "COMLINK_URL", "ENVIRONMENT_MODE",
       "JISHAKU_HIDE", "JISHAKU_NO_DM_TRACEBACK", "JISHAKU_NO_UNDERSCORE",
       "SECRET_KEY", "STATS_URL" >>
EnvVars == {EnvAnnotations[i] : i \in 1..Len(EnvAnnotations)}

\* The environments explored: every variable the core does not branch on is
\* set; the credential pair and the token range over unset / empty / set.
KeyValues(val) == {PyNone, PyStr(""), PyStr(val)}
Environments ==
    { [var \in EnvVars |->
          CASE var = "ACCESS_KEY" -> a
            [] var = "SECRET_KEY" -> s
            [] var = "BOT_TOKEN" -> b
            [] var = "COMLINK_URL" -> PyStr("http://comlink:3000")
            [] var = "STATS_URL" -> PyStr("http://stats:3223")
            [] var = "ENVIRONMENT_MODE" -> PyStr("DEV")
            [] OTHER -> PyStr("True")]
      : a \in KeyValues("ak"), s \in KeyValues("sk"), b \in {PyNone, PyStr("tok")} }

\* os.getenv(var)
GetEnv(environ, var) == environ[var]

\* Env._verify_env_variables: index of the first annotation whose variable is
\* unset or empty (0 when there is none); the loop raises ValueError there.
FirstUnset(environ) ==
    LET bad == {i \in 1..Len(EnvAnnotations) : ~Truthy(GetEnv(environ, EnvAnnotations[i]))}
    IN IF bad = {} THEN 0 ELSE CHOOSE i \in bad : \A j \in bad : i <= j
VerifyEnvVariablesMissingSecret(environ) ==
    LET bad == {i \in 1..Len(EnvAnnotations) :
                   /\ EnvAnnotations[i] # "SECRET_KEY"
                   /\ ~Truthy(GetEnv(environ, EnvAnnotations[i]))}
    IN IF bad = {} THEN [ok |-> TRUE, error |-> ""]
       ELSE [ok |-> FALSE,
             error |-> "Environment variable "
                       \o EnvAnnotations[CHOOSE i \in bad : \A j \in bad : i <= j]
                       \o " is not set."]
VerifyEnvVariables(environ) ==
    IF FirstUnset(environ) = 0
    THEN [ok |-> TRUE, error |-> ""]
    ELSE [ok |-> FALSE,
          error |-> "Environment variable " \o EnvAnnotations[FirstUnset(environ)]
                    \o " is not set."]

\* launcher.main: the token check that precedes the construction of the bot
LauncherTokenCheck(environ) ==
    IF ~Truthy(GetEnv(environ, "BOT_TOKEN"))
    THEN [ok |-> FALSE, error |-> "No BOT_TOKEN found in .env file"]
    ELSE [ok |-> TRUE, error |-> ""]

\* SwgohComlink.__init__: the signing flag
ComlinkInitHmac(cfg) == Truthy(cfg["ACCESS_KEY"]) /\ Truthy(cfg["SECRET_KEY"])

(***************************************************************************)
(* Signing and the central dispatch (SwgohComlink._post)                   *)
(***************************************************************************)
\* hashlib.md5(data).hexdigest(), an injective symbolic term
Md5Hex(data) == "md5<" \o data \o ">"
\* hmac.new(key, digestmod=sha256) fed `msg`, hexdigest()
HmacSha256Hex(key, msg) == "hmac<" \o key \o "|" \o msg \o ">"

\* the string whose MD5 is fed into the HMAC
PayloadString(payload) ==
    IF Truthy(payload) THEN DumpsCompact(payload) ELSE DumpsDefault(EmptyDict)

\* the bytes fed to the HMAC object, in order
HmacMessageNoTime(req_time, endpoint, payload) ==
    "POST" \o ("/" \o endpoint) \o Md5Hex(PayloadString(payload))
HmacMessage(req_time, endpoint, payload) ==
    req_time \o "POST" \o ("/" \o endpoint) \o Md5Hex(PayloadString(payload))

\* req_headers
ReqHeadersNoDate(signing, cfg, endpoint, payload, req_time) ==
    IF signing
    THEN PyDict(<< <<"Authorization",
             PyStr("HMAC-SHA256 Credential=" \o Fmt(cfg["ACCESS_KEY"]) \o ",Signature="
                   \o HmacSha256Hex(cfg["SECRET_KEY"].v,
                                    HmacMessage(req_time, endpoint, payload)))>> >>)
    ELSE EmptyDict
ReqHeaders(signing, cfg, endpoint, payload, req_time) ==
    IF signing
    THEN DictSet(PyDict(<< <<"X-Date", PyStr(req_time)>> >>), "Authorization",
             PyStr("HMAC-SHA256 Credential=" \o Fmt(cfg["ACCESS_KEY"]) \o ",Signature="
                   \o HmacSha256Hex(cfg["SECRET_KEY"].v,
                                    HmacMessage(req_time, endpoint, payload))))
    ELSE EmptyDict

\* what the signing branch consumed (history of the request, for the properties)
SignedInputs(signing, endpoint, payload, req_time) ==
    IF signing
    THEN [on |-> TRUE, req_time |-> req_time, path |-> "/" \o endpoint,
          payload_string |-> PayloadString(payload)]
    ELSE [on |-> FALSE, req_time |-> "", path |-> "", payload_string |-> ""]

\* session.post(post_url, json=payload, ...): aiohttp serialises a json
\* argument with json.dumps and its default separators; json=None sends no body
TransmittedBody(payload) ==
    IF payload = PyNone
    THEN [present |-> FALSE, bytes |-> ""]
    ELSE [present |-> TRUE, bytes |-> DumpsDefault(payload)]

\* post_url
PostUrl(self_url_base, url_base, endpoint) ==
    (IF ~Truthy(url_base) THEN self_url_base ELSE url_base.v) \o ("/" \o endpoint)

\* str(int(time.time() * 1000)) for the clock readings explored
ClockReadings == {1000, 1001}
ReqTime(now) == ToString(now)

NoRequest ==
    [method |-> "NONE", url |-> "", base |-> "", endpoint |-> "", headers |-> EmptyDict,
     json |-> PyNone, body |-> [present |-> FALSE, bytes |-> ""],
     signed |-> [on |-> FALSE, req_time |-> "", path |-> "", payload_string |-> ""]]

\* the request _post hands to the session
PostRequest(signing, cfg, self_url_base, url_base, endpoint, payload, now) ==
    [method |-> "POST",
     url |-> PostUrl(self_url_base, url_base, endpoint),
     base |-> IF ~Truthy(url_base) THEN self_url_base ELSE url_base.v,
     endpoint |-> endpoint,
     headers |-> ReqHeaders(signing, cfg, endpoint, payload, ReqTime(now)),
     json |-> payload,
     body |-> TransmittedBody(payload),
     signed |-> SignedInputs(signing, endpoint, payload, ReqTime(now))]

\* the request get_enums hands to the session (a GET, outside _post)
GetRequest(self_url_base, path) ==
    [NoRequest EXCEPT !.method = "GET", !.url = self_url_base \o path,
                      !.base = self_url_base, !.endpoint = "enums"]

(***************************************************************************)
(* Keyword arguments and the param_alias decorator                         *)
(***************************************************************************)
\* marks an argument the caller did not supply
Absent == [t |-> "absent", v |-> 0]
Kwargs(pairs) == PyDict(SelectSeq(pairs, LAMBDA p : p[2] # Absent))
\* the value a parameter is bound to: the keyword when supplied, else its default
Arg(kwargs, name, default) ==
    IF DictHas(kwargs, name) THEN DictGet(kwargs, name) ELSE default
DictDel(d, k) == PyDict(SelectSeq(d.v, LAMBDA p : p[1] # k))

\* param_alias(param, alias).wrapper: the kwargs handed to the wrapped function
ParamAlias(param, alias, kwargs) ==
    LET alias_param_value == IF DictHas(kwargs, alias) THEN DictGet(kwargs, alias) ELSE PyNone
    IN IF Truthy(alias_param_value)
       THEN DictDel(DictSet(kwargs, param, alias_param_value), alias)
       ELSE kwargs

\* func(**kwargs) raises TypeError on a keyword that is not one of its parameters
UnexpectedKeyword(kwargs, params) == DictKeys(kwargs) \ params # {}

(***************************************************************************)
(* Payload builders                                                        *)
(***************************************************************************)
Envelope(inner, enums) == PyDict(<< <<"payload", inner>>, <<"enums", enums>> >>)

\* _get_player_payload
GetPlayerPayload(allycode, player_id, enums) ==
    IF ~Truthy(allycode) /\ Truthy(player_id)
    THEN Envelope(DictSet(EmptyDict, "playerId", PyStr(Fmt(player_id))), enums)
    ELSE Envelope(DictSet(EmptyDict, "allyCode", PyStr(Fmt(allycode))), enums)

\* get_player_arena: payload
PlayerArenaPayload(allycode, player_id, player_details_only, enums) ==
    LET payload == GetPlayerPayload(allycode, player_id, enums)
    IN DictSet(payload, "payload",
               DictSet(DictGet(payload, "payload"), "playerDetailsOnly", player_details_only))

\* get_events: payload
EventsPayload(enums) == Envelope(EmptyDict, enums)

\* repr of the un-awaited coroutine that get_game_data formats into the version
CoroutineRepr == "<coroutine object SwgohComlink._get_game_version at 0x7f00>"

\* get_game_data: game_version
GameDataVersion(version) == IF version = PyStr("") THEN CoroutineRepr ELSE Fmt(version)

\* get_game_data: payload
GameDataPayload(version, include_pve_units, request_segment, enums) ==
    Envelope(PyDict(<< <<"version", PyStr(GameDataVersion(version))>>,
                       <<"includePveUnits", include_pve_units>>,
                       <<"requestSegment", request_segment>> >>), enums)

\* get_localization: payload
LocalizationPayload(id, unzip, enums) ==
    PyDict(<< <<"unzip", unzip>>, <<"enums", enums>>,
              <<"payload", PyDict(<< <<"id", id>> >>)>> >>)

\* get_game_metadata: payload
GameMetadataPayload(client_specs, enums) ==
    IF Truthy(client_specs)
    THEN Envelope(PyDict(<< <<"client_specs", client_specs>> >>), enums)
    ELSE EmptyDict

\* get_guild: payload
GuildPayload(guild_id, include_recent_guild_activity_info, enums) ==
    Envelope(PyDict(<< <<"guildId", guild_id>>,
                       <<"includeRecentGuildActivityInfo",
                         include_recent_guild_activity_info>> >>), enums)

\* get_guilds_by_name: payload
GuildsByNamePayload(name, start_index, count, enums) ==
    Envelope(PyDict(<< <<"name", name>>, <<"filterType", PyInt(4)>>,
                       <<"startIndex", start_index>>, <<"count", count>> >>), enums)

\* get_guilds_by_criteria: payload
GuildsByCriteriaPayload(search_criteria, start_index, count, enums) ==
    Envelope(PyDict(<< <<"searchCriteria", search_criteria>>, <<"filterType", PyInt(5)>>,
                       <<"startIndex", start_index>>, <<"count", count>> >>), enums)

\* get_guild_leaderboard: payload
GuildLeaderboardPayload(leaderboard_id, count, enums) ==
    Envelope(PyDict(<< <<"leaderboardId", leaderboard_id>>, <<"count", count>> >>), enums)

\* get_leaderboard: the two enum tables
leagues ==
    PyDict(<< <<"kyber", PyInt(100)>>, <<"aurodium", PyInt(80)>>, <<"chromium", PyInt(60)>>,
              <<"bronzium", PyInt(40)>>, <<"carbonite", PyInt(20)>> >>)
divisions ==
    PyDict(<< <<"1", PyInt(25)>>, <<"2", PyInt(20)>>, <<"3", PyInt(15)>>,
              <<"4", PyInt(10)>>, <<"5", PyInt(5)>> >>)

\* str.lower() on the names explored
Lower(s) ==
    CASE s = "Kyber" -> "kyber"
      [] s = "CHROMIUM" -> "chromium"
      [] OTHER -> s

\* get_leaderboard: league after translation; KeyError for an unknown name
TranslateLeagueLenient(league) ==
    IF IsInstanceStr(league) /\ DictHas(leagues, Lower(league.v))
    THEN [ok |-> TRUE, value |-> DictGet(leagues, Lower(league.v))]
    ELSE [ok |-> TRUE, value |-> league]
TranslateLeague(league) ==
    IF IsInstanceStr(league)
    THEN IF DictHas(leagues, Lower(league.v))
         THEN [ok |-> TRUE, value |-> DictGet(leagues, Lower(league.v))]
         ELSE [ok |-> FALSE, value |-> PyStr("KeyError")]
    ELSE [ok |-> TRUE, value |-> league]

\* get_leaderboard: division after translation; KeyError for an unknown key
TranslateDivision(division) ==
    IF IsInstanceInt(division) /\ Len(Fmt(division)) = 1
    THEN IF DictHas(divisions, Lower(Fmt(division)))
         THEN [ok |-> TRUE, value |-> DictGet(divisions, Lower(Fmt(division)))]
         ELSE [ok |-> FALSE, value |-> PyStr("KeyError")]
    ELSE IF IsInstanceStr(division)
         THEN IF DictHas(divisions, Lower(division.v))
              THEN [ok |-> TRUE, value |-> DictGet(divisions, Lower(division.v))]
              ELSE [ok |-> FALSE, value |-> PyStr("KeyError")]
         ELSE [ok |-> TRUE, value |-> division]

\* get_leaderboard: payload (league and division already translated)
LeaderboardPayload(leaderboard_type, league, division, event_instance_id, group_id, enums) ==
    LET inner == PyDict(<< <<"leaderboardType", leaderboard_type>> >>)
    IN IF leaderboard_type = PyInt(4)
       THEN Envelope(DictSet(DictSet(inner, "eventInstanceId", event_instance_id),
                             "groupId", group_id), enums)
       ELSE IF leaderboard_type = PyInt(6)
            THEN Envelope(DictSet(DictSet(inner, "league", league),
                                  "division", division), enums)
            ELSE Envelope(inner, enums)

\* ",".join(flags)
RECURSIVE Join(_, _, _)
Join(sep, elems, i) ==
    IF i > Len(elems) THEN ""
    ELSE (IF i > 1 THEN sep ELSE "") \o elems[i].v \o Join(sep, elems, i + 1)

\* get_unit_stats: endpoint_string
UnitStatsEndpoint(flags, language) ==
    LET flags_str == IF Truthy(flags) THEN "flags=" \o Join(",", flags.v, 1) ELSE ""
        lang == IF Truthy(language) THEN "language=" \o Fmt(language) ELSE ""
        parts == SelectSeq(<<PyStr(flags_str), PyStr(lang)>>, LAMBDA x : Truthy(x))
    IN IF flags_str # "" \/ Truthy(language)
       THEN "api" \o ("?" \o Join("&", parts, 1))
       ELSE "api"

(***************************************************************************)
(* Localisation text (create_localised_unit_name_dictionary)               *)
(*                                                                         *)
(* A text is a sequence of tokens: the separators "\n", "|" and "#", the   *)
(* fragments "UNIT_" and "_NAME", and an ordinary fragment "a".            *)
(***************************************************************************)
Tokens == {"\n", "|", "#", "UNIT_", "_NAME", "a"}

StartsWith(seq, pre) == Len(seq) >= Len(pre) /\ SubSeq(seq, 1, Len(pre)) = pre
EndsWith(seq, suf) ==
    Len(seq) >= Len(suf) /\ SubSeq(seq, Len(seq) - Len(suf) + 1, Len(seq)) = suf
Contains(seq, tok) == \E i \in 1..Len(seq) : seq[i] = tok
FirstIndex(seq, tok) ==
    CHOOSE i \in 1..Len(seq) : seq[i] = tok /\ \A j \in 1..(i - 1) : seq[j] # tok

\* str.split(sep): every occurrence of sep separates two parts
RECURSIVE Split(_, _)
Split(seq, sep) ==
    IF ~Contains(seq, sep) THEN <<seq>>
    ELSE <<SubSeq(seq, 1, FirstIndex(seq, sep) - 1)>>
         \o Split(SubSeq(seq, FirstIndex(seq, sep) + 1, Len(seq)), sep)

\* str.rstrip("\n")
RECURSIVE RStrip(_, _)
RStrip(seq, tok) ==
    IF Len(seq) > 0 /\ seq[Len(seq)] = tok THEN RStrip(SubSeq(seq, 1, Len(seq) - 1), tok)
    ELSE seq

\* unit_name_map[name_key] = desc
MapPut(map, key, val) == [k \in (DOMAIN map) \cup {key} |-> IF k = key THEN val ELSE map[k]]

\* one iteration of the loop over the lines: the map afterwards, or the
\* ValueError of unpacking a split that does not have exactly two parts
ParseLine(rawline, map) ==
    LET line == RStrip(rawline, "\n")
    IN IF StartsWith(line, <<"#">>) THEN [raised |-> FALSE, map |-> map]
       ELSE IF ~Contains(line, "|") THEN [raised |-> FALSE, map |-> map]
       ELSE IF StartsWith(line, <<"UNIT_">>)
            THEN IF Len(Split(line, "|")) # 2
                 THEN [raised |-> TRUE, map |-> map]
                 ELSE IF EndsWith(Split(line, "|")[1], <<"_NAME">>)
                      THEN [raised |-> FALSE,
                            map |-> MapPut(map, Split(line, "|")[1], Split(line, "|")[2])]
                      ELSE [raised |-> FALSE, map |-> map]
            ELSE [raised |-> FALSE, map |-> map]

\* the loop over locale.split("\n"), stopping at the first exception
RECURSIVE ParseLines(_, _, _)
ParseLines(lines, i, map) ==
    IF i > Len(lines) THEN [raised |-> FALSE, map |-> map]
    ELSE IF ParseLine(lines[i], map).raised THEN [raised |-> TRUE, map |-> map]
         ELSE ParseLines(lines, i + 1, ParseLine(lines[i], map).map)

\* the unit_name_map built from a locale text
BuildUnitNameMap(locale) == ParseLines(Split(locale, "\n"), 1, <<>>)

(***************************************************************************)
(* Bundle decoding stages                                                  *)
(*                                                                         *)
(* A bundle field is [t |-> "b64", v |-> content] when it is valid base64  *)
(* of content; content is [t |-> "zip", v |-> entries] when it is a ZIP    *)
(* archive; an entry's bytes are [t |-> "utf8", v |-> text] when they      *)
(* decode as UTF-8.                                                        *)
(***************************************************************************)
ZipHas(zip, name) == \E i \in 1..Len(zip.v) : zip.v[i][1] = name
ZipRead(zip, name) == zip.v[CHOOSE i \in 1..Len(zip.v) : zip.v[i][1] = name][2]

\* the steps between the bundle response and the parse: the locale text, or
\* the exception of the first step that fails
DecodeBundle(bundle) ==
    IF bundle.t # "dict" \/ ~DictHas(bundle, "localizationBundle")
    THEN [ok |-> FALSE, error |-> "KeyError", locale |-> <<>>]
    ELSE LET field == DictGet(bundle, "localizationBundle")
         IN IF field.t # "b64"
            THEN [ok |-> FALSE, error |-> "binascii.Error", locale |-> <<>>]
            ELSE IF field.v.t # "zip"
                 THEN [ok |-> FALSE, error |-> "BadZipFile", locale |-> <<>>]
                 ELSE IF ~ZipHas(field.v, "Loc_ENG_US.txt")
                      THEN [ok |-> FALSE, error |-> "KeyError", locale |-> <<>>]
                      ELSE IF ZipRead(field.v, "Loc_ENG_US.txt").t # "utf8"
                           THEN [ok |-> FALSE, error |-> "UnicodeDecodeError",
                                 locale |-> <<>>]
                           ELSE [ok |-> TRUE, error |-> "",
                                 locale |-> ZipRead(field.v, "Loc_ENG_US.txt").v]

\* get_latest_game_data_version: the dictionary built from a metadata
\* response; KeyError when a version key is missing
LatestVersionsGameAsLanguage(current_metadata) ==
    IF DictHas(current_metadata, "latestGamedataVersion")
       /\ DictHas(current_metadata, "latestLocalizationBundleVersion")
    THEN [ok |-> TRUE,
          value |-> PyDict(<< <<"game", DictGet(current_metadata, "latestGamedataVersion")>>,
                              <<"language",
                                DictGet(current_metadata, "latestGamedataVersion")>> >>)]
    ELSE [ok |-> FALSE, value |-> PyStr("KeyError")]
LatestVersions(current_metadata) ==
    IF DictHas(current_metadata, "latestGamedataVersion")
       /\ DictHas(current_metadata, "latestLocalizationBundleVersion")
    THEN [ok |-> TRUE,
          value |-> PyDict(<< <<"game", DictGet(current_metadata, "latestGamedataVersion")>>,
                              <<"language",
                                DictGet(current_metadata,
                                        "latestLocalizationBundleVersion")>> >>)]
    ELSE [ok |-> FALSE, value |-> PyStr("KeyError")]

(***************************************************************************)
(* Responses of the remote services explored                               *)
(***************************************************************************)
MetadataResponses ==
    { PyDict(<< <<"latestGamedataVersion", PyStr("1.2.3")>>,
                <<"latestLocalizationBundleVersion", PyStr("en_v9")>> >>),
      PyDict(<< <<"latestGamedataVersion", PyStr("1.2.4")>>,
                <<"latestLocalizationBundleVersion", PyStr("en_v10")>> >>),
      PyDict(<< <<"latestGamedataVersion", PyStr("1.2.3")>> >>) }

Utf8(text) == [t |-> "utf8", v |-> text]
Zip(entries) == [t |-> "zip", v |-> entries]
Bundle(field) == PyDict(<< <<"localizationBundle", field>> >>)
LocaleTexts ==
    { << "UNIT_", "a", "_NAME", "|", "a", "\n", "#", "a", "\n", "a", "|", "a", "\n",
         "UNIT_", "a", "|", "a", "\n", "UNIT_", "_NAME", "|", "a", "a" >>,
      << "UNIT_", "_NAME", "|", "a", "\n", "UNIT_", "a", "_NAME", "|", "a", "|", "a" >>,
      << >> }
BundleResponses ==
    { Bundle([t |-> "b64", v |-> Zip(<< <<"Loc_ENG_US.txt", Utf8(text)>> >>)]) :
        text \in LocaleTexts }
    \cup
    { Bundle([t |-> "b64", v |-> Zip(<< <<"Loc_FRE_FR.txt", Utf8(<<"a">>)>> >>)]),
      Bundle([t |-> "b64", v |-> Zip(<< <<"Loc_ENG_US.txt", [t |-> "bytes", v |-> 0]>> >>)]),
      Bundle([t |-> "b64", v |-> [t |-> "bytes", v |-> 0]]),
      Bundle(PyStr("%%%")),
      PyDict(<< <<"message", PyStr("not found")>> >>) }

PlayerResponses ==
    { PyDict(<< <<"name", PyStr("Thrawn")>>, <<"allyCode", PyStr("123456789")>>,
                <<"playerId", PyStr("pid1")>>, <<"rosterUnit", PyList(<<>>)>> >>),
      PyDict(<< <<"message", PyStr("not found")>> >>) }
GuildResponses ==
    { PyDict(<< <<"guild", PyDict(<< <<"profile", EmptyDict>> >>)>> >>),
      PyDict(<< <<"profile", EmptyDict>> >>) }
OtherResponses == { EmptyDict }

\* the JSON documents a service may answer an endpoint with
Responses(endpoint) ==
    CASE endpoint = "metadata" -> MetadataResponses
      [] endpoint = "localization" -> BundleResponses
      [] endpoint = "player" -> PlayerResponses
      [] endpoint = "guild" -> GuildResponses
      [] OTHER -> OtherResponses

\* the exceptions session.post / r.json() may raise
TransportErrors == {"ClientConnectionError", "ContentTypeError"}

(***************************************************************************)
(* State                                                                   *)
(***************************************************************************)
VARIABLES
    env,             \* the process environment (os.environ after load_dotenv)
    phase,           \* "boot", "failed", "constructed", "running", "closed"
    startupError,    \* message of the exception that ended start-up, or ""
    config,          \* bot.config: the attributes Env sets
    hmac,            \* comlink.hmac
    url_base,        \* comlink.url_base
    stats_url_base,  \* comlink.stats_url_base
    session,         \* bot.session: "none", "open", "closed"
    is_ready,        \* bot._is_ready
    ready,           \* the on_ready coroutines, one per gateway (re)connect
    unit_name_map,   \* comlink.unit_name_map (absent until assigned)
    asset,           \* the file assets/localisation/en-US.json
    pipelineRuns,    \* history: calls of create_localised_unit_name_dictionary
    mapWrites,       \* history: assignments to comlink.unit_name_map
    call,            \* the client operation a command handler is awaiting
    parseIn,         \* SpecParse: the locale text handed to the parser
    parseOut         \* SpecParse: what the parser made of it

botVars == <<env, phase, startupError, config, hmac, url_base, stats_url_base, session>>
pipeVars == <<is_ready, ready, unit_name_map, asset, pipelineRuns, mapWrites>>
pureVars == <<parseIn, parseOut>>
vars == <<botVars, pipeVars, call, pureVars>>

NoResult == [kind |-> "none", value |-> PyNone]
Returned(value) == [kind |-> "ok", value |-> value]
Raised(error) == [kind |-> "raised", value |-> PyStr(error)]

\* a client operation: args are the keywords the caller supplied, kw the
\* keywords the operation was entered with, req the request it is awaiting;
\* metadata (the metadata response it consumed) and sent (the number of
\* requests it has issued) are history
IdleCall ==
    [op |-> "", args |-> EmptyDict, kw |-> EmptyDict, pc |-> "idle", req |-> NoRequest,
     metadata |-> PyNone, sent |-> 0, result |-> NoResult]
\* an operation that has ended: its frame (arguments, request) is gone, its
\* outcome is with the caller
Finished(op, result) ==
    [op |-> op, args |-> EmptyDict, kw |-> EmptyDict, pc |-> "done", req |-> NoRequest,
     metadata |-> PyNone, sent |-> 0, result |-> result]
\* the operation of frame c has ended with this outcome
AfterCall(c, result) == [Finished(c.op, result) EXCEPT !.sent = c.sent]
PendingTask ==
    [pc |-> "pending", req |-> NoRequest, metadata |-> PyNone, versions |-> PyNone,
     bundle |-> PyNone, result |-> NoResult]
\* an on_ready coroutine that has ended; bundle is the bundle response it
\* consumed, if any (history)
EndedTask(pc, bundle, result) ==
    [pc |-> pc, req |-> NoRequest, metadata |-> PyNone, versions |-> PyNone,
     bundle |-> bundle, result |-> result]
NotParsed == [run |-> FALSE, raised |-> FALSE, map |-> <<>>]

OnReadyIds == 1..MaxOnReady

Init ==
    /\ env \in Environments
    /\ phase = "boot"
    /\ startupError = ""
    /\ config = [var \in EnvVars |-> PyNone]
    /\ hmac = FALSE
    /\ url_base = ""
    /\ stats_url_base = ""
    /\ session = "none"
    /\ is_ready = FALSE
    /\ ready = [i \in OnReadyIds |-> PendingTask]
    /\ unit_name_map = [set |-> FALSE, map |-> <<>>]
    /\ asset = [written |-> FALSE, map |-> <<>>]
    /\ pipelineRuns = 0
    /\ mapWrites = 0
    /\ call = IdleCall
    /\ parseIn = <<>>
    /\ parseOut = NotParsed

(***************************************************************************)
(* Start-up and shutdown                                                   *)
(***************************************************************************)
\* launcher.main up to the construction of the bot: the token check, then
\* ThrawnsGambit.__init__ (Env(), SwgohComlink(self))
LauncherMain ==
    /\ phase = "boot"
    /\ IF ~LauncherTokenCheck(env).ok
       THEN /\ phase' = "failed"
            /\ startupError' = LauncherTokenCheck(env).error
            /\ UNCHANGED <<config, hmac, url_base, stats_url_base>>
       ELSE IF ~VerifyEnvVariables(env).ok
            THEN /\ phase' = "failed"
                 /\ startupError' = VerifyEnvVariables(env).error
                 /\ UNCHANGED <<config, hmac, url_base, stats_url_base>>
            ELSE /\ phase' = "constructed"
                 /\ config' = [var \in EnvVars |-> GetEnv(env, var)]
                 /\ hmac' = ComlinkInitHmac(config')
                 /\ url_base' = Fmt(config'["COMLINK_URL"])
                 /\ stats_url_base' = Fmt(config'["STATS_URL"])
                 /\ UNCHANGED startupError
    /\ UNCHANGED <<env, session, pipeVars, call, pureVars>>

\* ThrawnsGambit.start: the session is entered, then the gateway loop runs
BotStart ==
    /\ phase = "constructed"
    /\ phase' = "running"
    /\ session' = "open"
    /\ UNCHANGED <<env, startupError, config, hmac, url_base, stats_url_base,
                   pipeVars, call, pureVars>>

\* how super().start(...) ends: it returns after close(), or it raises
StartOutcomes == {"returned", "LoginFailure"}

\* the session once the `async with aiohttp.ClientSession()` block is left
SessionAfterStartLeaked(outcome) == IF outcome = "returned" THEN "closed" ELSE "open"
SessionAfterStart(outcome) == "closed"

\* ThrawnsGambit.start leaves the `async with` block (return or exception)
BotShutdown ==
    /\ phase = "running"
    /\ phase' = "closed"
    /\ \E outcome \in StartOutcomes :
         /\ session' = SessionAfterStart(outcome)
         /\ startupError' = IF outcome = "returned" THEN "" ELSE outcome
    /\ UNCHANGED <<env, config, hmac, url_base, stats_url_base,
                   pipeVars, call, pureVars>>

(***************************************************************************)
(* Client operations                                                       *)
(***************************************************************************)
\* self._post(url_base, endpoint, payload) on this client
Post(url_base_arg, endpoint, payload, now) ==
    PostRequest(hmac, config, url_base, url_base_arg, endpoint, payload, now)

CanCall == phase = "running" /\ session = "open" /\ call.pc = "idle"
\* the operation is entered and runs to the await of its first request
EnterClobbersUrlBase(op, supplied, kwargs, pc, req) ==
    /\ call' = [op |-> op, args |-> supplied, kw |-> kwargs, pc |-> pc, req |-> req,
                metadata |-> PyNone, sent |-> 1, result |-> NoResult]
    /\ url_base' = req.base
    /\ UNCHANGED <<env, phase, startupError, config, hmac, stats_url_base, session,
                   pipeVars, pureVars>>
Enter(op, supplied, kwargs, pc, req) ==
    /\ call' = [op |-> op, args |-> supplied, kw |-> kwargs, pc |-> pc, req |-> req,
                metadata |-> PyNone, sent |-> 1, result |-> NoResult]
    /\ UNCHANGED <<botVars, pipeVars, pureVars>>
\* the operation raises before it has issued a request
Reject(op, supplied, kwargs, error) ==
    /\ call' = [op |-> op, args |-> supplied, kw |-> kwargs, pc |-> "done",
                req |-> NoRequest, metadata |-> PyNone, sent |-> 0,
                result |-> Raised(error)]
    /\ UNCHANGED <<botVars, pipeVars, pureVars>>
Begin(op, kwargs, pc, req) == Enter(op, kwargs, kwargs, pc, req)
Fail(op, kwargs, error) == Reject(op, kwargs, kwargs, error)

EnumsArgs == {Absent, PyBool(TRUE)}
AllyCodes == {PyNone, PyStr("123456789"), PyInt(123456789)}
PlayerIds == {PyNone, PyStr("pid1")}
StatsPayloads == {EmptyDict, PyDict(<< <<"units", PyList(<<>>)>> >>)}
FlagLists == {PyNone, PyList(<<PyStr("calcGP"), PyStr("gameStyle")>>)}
Languages == {PyNone, PyStr("eng_us")}
Versions == {PyStr(""), PyStr("1.2.3")}
BundleIds == {PyNone, PyStr("en_v9")}
ClientSpecs == {Absent, EmptyDict, PyDict(<< <<"platform", PyStr("Android")>> >>)}
LeaderboardTypes == {PyInt(4), PyInt(6), PyInt(2)}
\* league and division are translated independently of each other: each value
\* of either is explored, in the pairs below
LeagueDivisions ==
    {<<PyNone, PyNone>>, <<PyInt(100), PyInt(25)>>, <<PyStr("Kyber"), PyInt(2)>>,
     <<PyStr("CHROMIUM"), PyStr("3")>>, <<PyStr("mythril"), PyInt(2)>>,
     <<PyStr("kyber"), PyStr("9")>>, <<PyStr("kyber"), PyInt(7)>>}
EventGroups == {<<PyNone, PyNone>>, <<PyStr("EVT:O1"), PyNone>>,
                <<PyStr("EVT:O1"), PyStr("EVT:O1:KYBER:1")>>}
AliasFlags == {Absent, PyBool(FALSE), PyBool(TRUE)}
CanonicalFlags == {Absent, PyBool(TRUE)}

GetUnitStats ==
    /\ CanCall
    /\ \E request_payload \in StatsPayloads, flags \in FlagLists, language \in Languages,
          now \in ClockReadings :
         Begin("get_unit_stats",
               Kwargs(<< <<"request_payload", request_payload>>, <<"flags", flags>>,
                         <<"language", language>> >>),
               "await_post",
               Post(PyStr(stats_url_base), UnitStatsEndpoint(flags, language),
                    request_payload, now))

GetEnums ==
    /\ CanCall
    /\ Begin("get_enums", EmptyDict, "await_post", GetRequest(url_base, "/enums"))

GetEvents ==
    /\ CanCall
    /\ \E enums \in EnumsArgs, now \in ClockReadings :
         LET kwargs == Kwargs(<< <<"enums", enums>> >>)
         IN Begin("get_events", kwargs, "await_post",
                  Post(PyNone, "getEvents",
                       EventsPayload(Arg(kwargs, "enums", PyBool(FALSE))), now))

GetGameData ==
    /\ CanCall
    /\ \E version \in Versions, include_pve_units \in {Absent, PyBool(FALSE)},
          enums \in EnumsArgs, now \in ClockReadings :
         LET kwargs == Kwargs(<< <<"version", version>>,
                                 <<"include_pve_units", include_pve_units>>,
                                 <<"enums", enums>> >>)
         IN Begin("get_game_data", kwargs, "await_post",
                  Post(PyNone, "data",
                       GameDataPayload(Arg(kwargs, "version", PyStr("")),
                                       Arg(kwargs, "include_pve_units", PyBool(TRUE)),
                                       Arg(kwargs, "request_segment", PyInt(0)),
                                       Arg(kwargs, "enums", PyBool(FALSE))), now))

GetGameMetadata ==
    /\ CanCall
    /\ \E client_specs \in ClientSpecs, enums \in EnumsArgs, now \in ClockReadings :
         LET kwargs == Kwargs(<< <<"client_specs", client_specs>>, <<"enums", enums>> >>)
         IN Begin("get_game_metadata", kwargs, "await_post",
                  Post(PyNone, "metadata",
                       GameMetadataPayload(Arg(kwargs, "client_specs", EmptyDict),
                                           Arg(kwargs, "enums", PyBool(FALSE))), now))

\* get_localization: with an id the bundle is requested at once; without one
\* get_latest_game_data_version -> get_metadata is awaited first
GetLocalization ==
    /\ CanCall
    /\ \E id \in BundleIds, unzip \in {Absent, PyBool(TRUE)}, enums \in EnumsArgs,
          now \in ClockReadings :
         LET kwargs == Kwargs(<< <<"id", id>>, <<"unzip", unzip>>, <<"enums", enums>> >>)
         IN IF ~Truthy(Arg(kwargs, "id", PyNone))
            THEN Begin("get_localization", kwargs, "await_meta",
                       Post(PyNone, "metadata",
                            GameMetadataPayload(EmptyDict, PyBool(FALSE)), now))
            ELSE Begin("get_localization", kwargs, "await_post",
                       Post(PyNone, "localization",
                            LocalizationPayload(Arg(kwargs, "id", PyNone),
                                                Arg(kwargs, "unzip", PyBool(FALSE)),
                                                Arg(kwargs, "enums", PyBool(FALSE))), now))

GetPlayer ==
    /\ CanCall
    /\ \E allycode \in AllyCodes, player_id \in PlayerIds, enums \in EnumsArgs,
          now \in ClockReadings :
         LET kwargs == Kwargs(<< <<"allycode", allycode>>, <<"player_id", player_id>>,
                                 <<"enums", enums>> >>)
         IN Begin("get_player", kwargs, "await_post",
                  Post(PyNone, "player",
                       GetPlayerPayload(Arg(kwargs, "allycode", PyNone),
                                        Arg(kwargs, "player_id", PyNone),
                                        Arg(kwargs, "enums", PyBool(FALSE))), now))

GetPlayerArenaParams == {"allycode", "player_id", "player_details_only", "enums"}
GetPlayerArena ==
    /\ CanCall
    /\ \E allycode \in AllyCodes, player_id \in PlayerIds,
          player_details_only \in CanonicalFlags, playerDetailsOnly \in AliasFlags,
          enums \in EnumsArgs, now \in ClockReadings :
         LET supplied == Kwargs(<< <<"allycode", allycode>>, <<"player_id", player_id>>,
                                   <<"player_details_only", player_details_only>>,
                                   <<"playerDetailsOnly", playerDetailsOnly>>,
                                   <<"enums", enums>> >>)
             kwargs == ParamAlias("player_details_only", "playerDetailsOnly", supplied)
         IN IF UnexpectedKeyword(kwargs, GetPlayerArenaParams)
            THEN Reject("get_player_arena", supplied, kwargs, "TypeError")
            ELSE Enter("get_player_arena", supplied, kwargs, "await_post",
                       Post(PyNone, "playerArena",
                            PlayerArenaPayload(Arg(kwargs, "allycode", PyNone),
                                               Arg(kwargs, "player_id", PyNone),
                                               Arg(kwargs, "player_details_only",
                                                   PyBool(FALSE)),
                                               Arg(kwargs, "enums", PyBool(FALSE))), now))

GetGuildParams == {"guild_id", "include_recent_guild_activity_info", "enums"}
GetGuild ==
    /\ CanCall
    /\ \E include_recent_guild_activity_info \in CanonicalFlags,
          includeRecent \in AliasFlags, enums \in EnumsArgs, now \in ClockReadings :
         LET supplied == Kwargs(<< <<"guild_id", PyStr("gid1")>>,
                                   <<"include_recent_guild_activity_info",
                                     include_recent_guild_activity_info>>,
                                   <<"includeRecent", includeRecent>>,
                                   <<"enums", enums>> >>)
             kwargs == ParamAlias("include_recent_guild_activity_info", "includeRecent",
                                  supplied)
         IN IF UnexpectedKeyword(kwargs, GetGuildParams)
            THEN Reject("get_guild", supplied, kwargs, "TypeError")
            ELSE Enter("get_guild", supplied, kwargs, "await_post",
                       Post(PyNone, "guild",
                            GuildPayload(Arg(kwargs, "guild_id", PyNone),
                                         Arg(kwargs, "include_recent_guild_activity_info",
                                             PyBool(FALSE)),
                                         Arg(kwargs, "enums", PyBool(FALSE))), now))

GetGuildsByName ==
    /\ CanCall
    /\ \E enums \in EnumsArgs, now \in ClockReadings :
         LET kwargs == Kwargs(<< <<"name", PyStr("Chiss")>>, <<"enums", enums>> >>)
         IN Begin("get_guilds_by_name", kwargs, "await_post",
                  Post(PyNone, "getGuilds",
                       GuildsByNamePayload(Arg(kwargs, "name", PyNone),
                                           Arg(kwargs, "start_index", PyInt(0)),
                                           Arg(kwargs, "count", PyInt(10)),
                                           Arg(kwargs, "enums", PyBool(FALSE))), now))

GetGuildsByCriteria ==
    /\ CanCall
    /\ \E enums \in EnumsArgs, now \in ClockReadings :
         LET kwargs == Kwargs(<< <<"search_criteria",
                                   PyDict(<< <<"minMemberCount", PyInt(1)>> >>)>>,
                                 <<"enums", enums>> >>)
         IN Begin("get_guilds_by_criteria", kwargs, "await_post",
                  Post(PyNone, "getGuilds",
                       GuildsByCriteriaPayload(Arg(kwargs, "search_criteria", PyNone),
                                               Arg(kwargs, "start_index", PyInt(0)),
                                               Arg(kwargs, "count", PyInt(10)),
                                               Arg(kwargs, "enums", PyBool(FALSE))), now))

GetLeaderboard ==
    /\ CanCall
    /\ \E leaderboard_type \in LeaderboardTypes, ld \in LeagueDivisions,
          eg \in EventGroups, enums \in EnumsArgs, now \in ClockReadings :
         LET league == ld[1]
             division == ld[2]
             kwargs == Kwargs(<< <<"leaderboard_type", leaderboard_type>>,
                                 <<"league", league>>, <<"division", division>>,
                                 <<"event_instance_id", eg[1]>>, <<"group_id", eg[2]>>,
                                 <<"enums", enums>> >>)
         IN IF ~TranslateLeague(league).ok \/ ~TranslateDivision(division).ok
            THEN Fail("get_leaderboard", kwargs, "KeyError")
            ELSE Begin("get_leaderboard", kwargs, "await_post",
                       Post(PyNone, "getLeaderboard",
                            LeaderboardPayload(leaderboard_type,
                                               TranslateLeague(league).value,
                                               TranslateDivision(division).value,
                                               eg[1], eg[2],
                                               Arg(kwargs, "enums", PyBool(FALSE))), now))

GetGuildLeaderboard ==
    /\ CanCall
    /\ \E enums \in EnumsArgs, now \in ClockReadings :
         LET kwargs == Kwargs(<< <<"leaderboard_id",
                                   PyList(<< PyDict(<< <<"leaderboardType", PyInt(0)>>,
                                                       <<"monthOffset", PyInt(0)>> >>) >>)>>,
                                 <<"enums", enums>> >>)
         IN Begin("get_guild_leaderboard", kwargs, "await_post",
                  Post(PyNone, "getGuildLeaderboard",
                       GuildLeaderboardPayload(Arg(kwargs, "leaderboard_id", PyNone),
                                               Arg(kwargs, "count", PyInt(200)),
                                               Arg(kwargs, "enums", PyBool(FALSE))), now))

\* get_player: Player(**data); Player is a TypedDict, so this builds a plain
\* dict of the items of data and checks no key
PlayerFromResponse(data) == PyDict(data.v)

\* get_guild: the value returned for a response
GuildResult(guild) == IF DictHas(guild, "guild") THEN DictGet(guild, "guild") ELSE guild

\* the awaited request is answered with a JSON document: the operation
\* resumes and runs to its next await or to its return
CallResponse ==
    /\ call.pc \in {"await_post", "await_meta"}
    /\ call.op # "on_submit"
    /\ session = "open"
    /\ \E data \in Responses(call.req.endpoint), now \in ClockReadings :
         IF call.pc = "await_meta"
         THEN IF ~LatestVersions(data).ok
              THEN call' = AfterCall(call, Raised("KeyError"))
              ELSE call' = [call EXCEPT
                       !.pc = "await_post",
                       !.metadata = data,
                       !.sent = call.sent + 1,
                       !.req = Post(PyNone, "localization",
                                    LocalizationPayload(
                                        DictGet(LatestVersions(data).value, "language"),
                                        Arg(call.kw, "unzip", PyBool(FALSE)),
                                        Arg(call.kw, "enums", PyBool(FALSE))), now)]
         ELSE call' = AfterCall(call,
                               IF call.op = "get_guild" THEN Returned(GuildResult(data))
                               ELSE IF call.op = "get_player"
                                    THEN Returned(PlayerFromResponse(data))
                                    ELSE Returned(data))
    /\ UNCHANGED <<botVars, pipeVars, pureVars>>

\* _post: what `except Exception as e: raise e` raises for the exception e of
\* session.post / r.json() on this endpoint
PostReraiseWrapped(e, endpoint) == Raised("RemoteCallFailed")
PostReraise(e, endpoint) == Raised(e)

\* the frame of an operation whose awaited request has raised e: nothing in
\* the operation handles the exception, it ends
AfterFailureRetries(c, e) ==
    IF c.sent < 3 THEN [c EXCEPT !.sent = c.sent + 1]
    ELSE AfterCall(c, PostReraise(e, c.req.endpoint))
AfterFailure(c, e) == AfterCall(c, PostReraise(e, c.req.endpoint))

\* session.post / session.get / r.json() raises: the operation ends
CallFailure ==
    /\ call.pc \in {"await_post", "await_meta"}
    /\ \E e \in TransportErrors :
         call' = AfterFailure(call, e)
    /\ UNCHANGED <<botVars, pipeVars, pureVars>>

\* the command handler has consumed the outcome
CallReturn ==
    /\ call.pc = "done"
    /\ call' = IdleCall
    /\ UNCHANGED <<botVars, pipeVars, pureVars>>

(***************************************************************************)
(* The onboarding modal (AllyCodeModal.on_submit)                          *)
(***************************************************************************)
\* the text of the input is a sequence of characters, the link prefix being
\* one token
GgPrefix == "https://swgoh.gg/p/"
Digits == {"0", "1", "2", "3", "4", "5", "6", "7", "8", "9"}
AllDigits(s, from, to) == \A i \in from..to : s[i] \in Digits
RECURSIVE Text(_)
Text(s) == IF s = <<>> THEN "" ELSE Head(s) \o Text(Tail(s))

\* re.match(ally_code_regex, ally_code): ^(\d{9}|(\d{3}-){2}\d{3})$
IsValidAllyCode(ally_code) ==
    \/ Len(ally_code) = 9 /\ AllDigits(ally_code, 1, 9)
    \/ /\ Len(ally_code) = 11
       /\ AllDigits(ally_code, 1, 3) /\ ally_code[4] = "-"
       /\ AllDigits(ally_code, 5, 7) /\ ally_code[8] = "-"
       /\ AllDigits(ally_code, 9, 11)

\* re.match(swgoh_gg_regex, url): https:\/\/swgoh\.gg\/p\/\d{9}\/? at the start
\* of the text, whatever follows
IsSwgohGgLink(url) ==
    Len(url) >= 10 /\ url[1] = GgPrefix /\ AllDigits(url, 2, 10)

\* build_swgoh_gg_link
BuildSwgohGgLink(ally_code) == GgPrefix \o ally_code \o "/"

\* get_ally_code_from_url: group 1 of re.search(r"/p/(\d{9})/?", url)
GetAllyCodeFromUrl(url) ==
    IF \E i \in 1..Len(url) : url[i] = GgPrefix /\ Len(url) >= i + 9
                              /\ AllDigits(url, i + 1, i + 9)
    THEN LET i == CHOOSE k \in 1..Len(url) :
                      /\ url[k] = GgPrefix /\ Len(url) >= k + 9 /\ AllDigits(url, k + 1, k + 9)
                      /\ \A j \in 1..(k - 1) :
                             ~(url[j] = GgPrefix /\ Len(url) >= j + 9
                               /\ AllDigits(url, j + 1, j + 9))
         IN [ok |-> TRUE, value |-> SubSeq(url, i + 1, i + 9)]
    ELSE [ok |-> FALSE, value |-> <<>>]

\* value.replace("-", "")
RemoveDashes(value) == SelectSeq(value, LAMBDA c : c # "-")

\* int(text) of a text of decimal digits
DigitValue(c) ==
    CASE c = "0" -> 0 [] c = "1" -> 1 [] c = "2" -> 2 [] c = "3" -> 3 [] c = "4" -> 4
      [] c = "5" -> 5 [] c = "6" -> 6 [] c = "7" -> 7 [] c = "8" -> 8 [] c = "9" -> 9
RECURSIVE IntOfDigits(_, _)
IntOfDigits(s, acc) ==
    IF s = <<>> THEN acc ELSE IntOfDigits(Tail(s), 10 * acc + DigitValue(Head(s)))

\* on_submit: ally_code after the two tests
ModalAllyCode(value) ==
    IF IsValidAllyCode(value) THEN PyInt(IntOfDigits(RemoveDashes(value), 0))
    ELSE IF IsSwgohGgLink(value)
         THEN PyInt(IntOfDigits(GetAllyCodeFromUrl(value).value, 0))
         ELSE PyNone

InvalidResponse ==
    "Invalid response. Please enter a valid Ally Code or SWGOH.GG profile url."
\* on_submit: the two values formatted into the message sent once the profile
\* page has answered (the Markdown quoting around them is left out)
ProfileMessage(ally_code, swgoh_link, status) ==
    PyDict(<< <<"Ally Code", PyStr(Fmt(ally_code))>>,
              <<"SWGOH.GG Profile",
                PyStr(IF status = 200 THEN swgoh_link ELSE "No Profile Found")>> >>)

\* the request on_submit hands to the session
ProfileRequest(swgoh_link) ==
    [NoRequest EXCEPT !.method = "GET", !.url = swgoh_link, !.base = "https://swgoh.gg",
                      !.endpoint = "p"]

\* the texts submitted
ModalValues ==
    { <<"1", "2", "3", "4", "5", "6", "7", "8", "9">>,
      <<"0", "1", "2", "-", "3", "4", "5", "-", "6", "7", "8">>,
      <<GgPrefix, "1", "2", "3", "4", "5", "6", "7", "8", "9", "/">>,
      <<GgPrefix, "0", "1", "2", "3", "4", "5", "6", "7", "8">>,
      <<"0", "0", "0", "0", "0", "0", "0", "0", "0">>,
      <<"1", "2", "3", "4", "-", "5", "6", "7", "8">> }
ProfileStatuses == {200, 404}

\* on_submit up to its first await: the profile request, or the message for
\* an input that gave no ally code
OnSubmit ==
    /\ CanCall
    /\ \E value \in ModalValues :
         LET kwargs == PyDict(<< <<"value", PyList(value)>> >>)
             ally_code == ModalAllyCode(value)
         IN IF Truthy(ally_code)
            THEN Enter("on_submit", kwargs, kwargs, "await_post",
                       ProfileRequest(BuildSwgohGgLink(Fmt(ally_code))))
            ELSE /\ call' = [op |-> "on_submit", args |-> kwargs, kw |-> kwargs,
                             pc |-> "done", req |-> NoRequest, metadata |-> PyNone,
                             sent |-> 0, result |-> Returned(PyStr(InvalidResponse))]
                 /\ UNCHANGED <<botVars, pipeVars, pureVars>>

\* the profile page answers: the message is sent
OnSubmitResponse ==
    /\ call.pc = "await_post"
    /\ call.op = "on_submit"
    /\ session = "open"
    /\ \E status \in ProfileStatuses :
         call' = AfterCall(call,
                     Returned(ProfileMessage(
                         ModalAllyCode(DictGet(call.kw, "value").v),
                         call.req.url, status)))
    /\ UNCHANGED <<botVars, pipeVars, pureVars>>

(***************************************************************************)
(* on_ready and the localisation pipeline                                  *)
(***************************************************************************)
\* bot._is_ready once on_ready has passed its guard
IsReadyAfterGuardUnset(was_ready) == was_ready
IsReadyAfterGuard(was_ready) == TRUE

\* on_ready: a reconnect returns at the guard; the first event sets the flag
\* and enters create_localised_unit_name_dictionary, which runs to its first
\* await (get_latest_game_data_version -> get_metadata -> _post)
OnReady(i) ==
    /\ phase = "running"
    /\ session = "open"
    /\ ready[i].pc = "pending"
    /\ \A j \in OnReadyIds : j < i => ready[j].pc # "pending"
    /\ IF is_ready
       THEN /\ ready' = [ready EXCEPT ![i] = EndedTask("returned", PyNone, Returned(PyNone))]
            /\ UNCHANGED <<is_ready, pipelineRuns>>
       ELSE /\ is_ready' = IsReadyAfterGuard(is_ready)
            /\ pipelineRuns' = pipelineRuns + 1
            /\ \E now \in ClockReadings :
                 ready' = [ready EXCEPT
                     ![i].pc = "await_meta",
                     ![i].req = Post(PyNone, "metadata",
                                     GameMetadataPayload(EmptyDict, PyBool(FALSE)), now)]
    /\ UNCHANGED <<botVars, unit_name_map, asset, mapWrites, call, pureVars>>

\* the metadata request of the pipeline is answered: the versions are taken
\* from it and get_localization_bundle(id=...) runs to its _post.  (The ids
\* explored are non-empty, so get_localization does not resolve the id again.)
PipelineMetadata(i) ==
    /\ ready[i].pc = "await_meta"
    /\ session = "open"
    /\ \E current_metadata \in MetadataResponses, now \in ClockReadings :
         IF ~LatestVersions(current_metadata).ok
         THEN ready' = [ready EXCEPT ![i] = EndedTask("raised", PyNone, Raised("KeyError"))]
         ELSE ready' = [ready EXCEPT
                  ![i].pc = "await_bundle",
                  ![i].metadata = current_metadata,
                  ![i].versions = LatestVersions(current_metadata).value,
                  ![i].req = Post(PyNone, "localization",
                                  LocalizationPayload(
                                      DictGet(LatestVersions(current_metadata).value,
                                              "language"),
                                      PyBool(FALSE), PyBool(FALSE)), now)]
    /\ UNCHANGED <<botVars, is_ready, unit_name_map, asset, pipelineRuns, mapWrites,
                   call, pureVars>>

\* self.unit_name_map once the parsing loop over the locale text has ended:
\* the attribute is assigned after the loop, from the finished local mapping
UnitNameMapAssignedInLoop(current, built) == [set |-> TRUE, map |-> built.map]
UnitNameMapAfterLoop(current, built) ==
    IF built.raised THEN current ELSE [set |-> TRUE, map |-> built.map]

\* the bundle request is answered: decode, unzip, read, parse, assign the map
\* and write the file, with no await in between; fs_ok is whether the asset
\* file can be opened for writing
PipelineBundle(i) ==
    /\ ready[i].pc = "await_bundle"
    /\ session = "open"
    /\ \E bundle \in BundleResponses, fs_ok \in BOOLEAN :
         LET decoded == DecodeBundle(bundle)
             built == BuildUnitNameMap(decoded.locale)
         IN IF ~decoded.ok
            THEN /\ ready' = [ready EXCEPT
                                  ![i] = EndedTask("raised", bundle, Raised(decoded.error))]
                 /\ UNCHANGED <<unit_name_map, asset, mapWrites>>
            ELSE IF built.raised
                 THEN /\ ready' = [ready EXCEPT
                                 ![i] = EndedTask("raised", bundle, Raised("ValueError"))]
                      /\ unit_name_map' = UnitNameMapAfterLoop(unit_name_map, built)
                      /\ UNCHANGED <<asset, mapWrites>>
                 ELSE /\ unit_name_map' = UnitNameMapAfterLoop(unit_name_map, built)
                      /\ mapWrites' = mapWrites + 1
                      /\ IF fs_ok
                         THEN /\ asset' = [written |-> TRUE, map |-> built.map]
                              /\ ready' = [ready EXCEPT
                                     ![i] = EndedTask("returned", bundle, Returned(PyNone))]
                         ELSE /\ asset' = asset
                              /\ ready' = [ready EXCEPT
                                     ![i] = EndedTask("raised", bundle,
                                                      Raised("FileNotFoundError"))]
    /\ UNCHANGED <<botVars, is_ready, pipelineRuns, call, pureVars>>

\* a request of the pipeline fails in session.post / r.json(): nothing in
\* _post, the pipeline or on_ready handles it, so on_ready ends by raising
PipelineFailure(i) ==
    /\ ready[i].pc \in {"await_meta", "await_bundle"}
    /\ \E e \in TransportErrors :
         ready' = [ready EXCEPT
                      ![i] = EndedTask("raised", PyNone,
                                       PostReraise(e, ready[i].req.endpoint))]
    /\ UNCHANGED <<botVars, is_ready, unit_name_map, asset, pipelineRuns, mapWrites,
                   call, pureVars>>

Next ==
    \/ LauncherMain
    \/ BotStart
    \/ BotShutdown
    \/ GetUnitStats
    \/ GetEnums
    \/ GetEvents
    \/ GetGameData
    \/ GetGameMetadata
    \/ GetLocalization
    \/ GetPlayer
    \/ GetPlayerArena
    \/ GetGuild
    \/ GetGuildsByName
    \/ GetGuildsByCriteria
    \/ GetLeaderboard
    \/ GetGuildLeaderboard
    \/ CallResponse
    \/ CallFailure
    \/ CallReturn
    \/ OnSubmit
    \/ OnSubmitResponse
    \/ \E i \in OnReadyIds : OnReady(i)
    \/ \E i \in OnReadyIds : PipelineMetadata(i)
    \/ \E i \in OnReadyIds : PipelineBundle(i)
    \/ \E i \in OnReadyIds : PipelineFailure(i)

Spec == Init /\ [][Next]_vars

(***************************************************************************)
(* The parser on its own: every locale text of at most MaxLocaleLen tokens *)
(***************************************************************************)
LocaleInputs == UNION {[1..n -> Tokens] : n \in 0..MaxLocaleLen}

InitParse ==
    /\ env = [var \in EnvVars |-> PyStr("set")]
    /\ phase = "boot"
    /\ startupError = ""
    /\ config = [var \in EnvVars |-> PyNone]
    /\ hmac = FALSE
    /\ url_base = ""
    /\ stats_url_base = ""
    /\ session = "none"
    /\ is_ready = FALSE
    /\ ready = [i \in OnReadyIds |-> PendingTask]
    /\ unit_name_map = [set |-> FALSE, map |-> <<>>]
    /\ asset = [written |-> FALSE, map |-> <<>>]
    /\ pipelineRuns = 0
    /\ mapWrites = 0
    /\ call = IdleCall
    /\ parseIn \in LocaleInputs
    /\ parseOut = NotParsed

\* the parsing loop of create_localised_unit_name_dictionary applied to parseIn
ParseLocale ==
    /\ ~parseOut.run
    /\ parseOut' = [run |-> TRUE, raised |-> BuildUnitNameMap(parseIn).raised,
                    map |-> BuildUnitNameMap(parseIn).map]
    /\ UNCHANGED <<botVars, pipeVars, call, parseIn>>

NextParse == ParseLocale

SpecParse == InitParse /\ [][NextParse]_vars

(***************************************************************************)
(* Properties                                                              *)
(***************************************************************************)
\* the requests that are with the session at this moment
Dispatched == ({call.req} \cup {ready[i].req : i \in OnReadyIds}) \ {NoRequest}
HasHeader(req, name) == DictHas(req.headers, name)
BothKeysSet(environ) ==
    Truthy(GetEnv(environ, "ACCESS_KEY")) /\ Truthy(GetEnv(environ, "SECRET_KEY"))
NoKeySet(environ) ==
    ~Truthy(GetEnv(environ, "ACCESS_KEY")) /\ ~Truthy(GetEnv(environ, "SECRET_KEY"))
ExactlyOneKeySet(environ) == ~BothKeysSet(environ) /\ ~NoKeySet(environ)
PlayerLookupInFlight ==
    call.pc = "await_post" /\ call.op \in {"get_player", "get_player_arena"}

\* C1: the payload of a player lookup (get_player, get_player_arena) holds
\* playerId and no allyCode whenever a player id is supplied, with or without
\* an ally code, and allyCode and no playerId when only an ally code is supplied.
C1_PlayerIdPreferred ==
    PlayerLookupInFlight =>
        LET inner == DictGet(call.req.json, "payload")
            player_id == Arg(call.kw, "player_id", PyNone)
            allycode == Arg(call.kw, "allycode", PyNone)
        IN /\ Truthy(player_id) =>
                DictHas(inner, "playerId") /\ ~DictHas(inner, "allyCode")
           /\ (~Truthy(player_id) /\ Truthy(allycode)) =>
                DictHas(inner, "allyCode") /\ ~DictHas(inner, "playerId")

\* C2: for every signed POST the body bytes handed to the transport are the
\* byte string whose MD5 digest was fed into the HMAC.
C2_SignedBodyIsTransmittedBody ==
    \A req \in Dispatched :
        req.signed.on => req.body.present /\ req.body.bytes = req.signed.payload_string

\* C3: no getLeaderboard POST is ever made for a call with leaderboard_type 4
\* that lacks event_instance_id or group_id.
C3_Type4RejectedBeforeDispatch ==
    (call.op = "get_leaderboard" /\ Arg(call.kw, "leaderboard_type", PyNone) = PyInt(4)
     /\ (Arg(call.kw, "event_instance_id", PyNone) = PyNone
         \/ Arg(call.kw, "group_id", PyNone) = PyNone))
    => call.req = NoRequest

\* C4: every body POSTed to a Comlink endpoint has a `payload` key and a boolean
\* `enums` key, which is false unless the caller overrides it.
EnvelopeWellFormed(json) ==
    /\ json.t = "dict"
    /\ DictHas(json, "payload")
    /\ DictHas(json, "enums")
    /\ DictGet(json, "enums").t = "bool"
C4_EveryBodyIsAnEnvelope ==
    /\ \A req \in Dispatched :
           (req.method = "POST" /\ req.base = url_base) => EnvelopeWellFormed(req.json)
    /\ (call.req \in Dispatched /\ call.req.method = "POST" /\ call.req.base = url_base
        /\ ~DictHas(call.kw, "enums"))
       => (EnvelopeWellFormed(call.req.json) /\ DictGet(call.req.json, "enums") = PyBool(FALSE))

\* C5 (as claimed): a get_unit_stats request carries no Authorization and no
\* X-Date header, whether or not a credential pair is configured.
C5_StatsNeverSigned ==
    (call.op = "get_unit_stats" /\ call.pc = "await_post")
    => ~HasHeader(call.req, "Authorization") /\ ~HasHeader(call.req, "X-Date")

\* C5 (amended): a get_unit_stats request goes through the central dispatch
\* like every other POST: it carries the X-Date and the Authorization header
\* exactly when the signing flag of the client is set.
C5_StatsSignedLikeAnyPost ==
    (call.op = "get_unit_stats" /\ call.pc = "await_post")
    => /\ call.req.base = stats_url_base
       /\ HasHeader(call.req, "X-Date") <=> hmac
       /\ HasHeader(call.req, "Authorization") <=> hmac
W5_SignedStatsRequest ==
    /\ call.op = "get_unit_stats"
    /\ call.pc = "await_post"
    /\ hmac
    /\ HasHeader(call.req, "X-Date")
    /\ HasHeader(call.req, "Authorization")
    /\ call.req.url = "http://stats:3223/api?flags=calcGP,gameStyle&language=eng_us"

\* C6: a POST to the Comlink base URL carries both X-Date and Authorization
\* when signing is enabled and neither when no credential pair is configured,
\* and a process configured with no credential pair still starts.
C6_UnsignedProcessStarts ==
    /\ \A req \in Dispatched :
           (req.method = "POST" /\ req.base = url_base) =>
               /\ hmac => HasHeader(req, "X-Date") /\ HasHeader(req, "Authorization")
               /\ NoKeySet(env) => ~HasHeader(req, "X-Date") /\ ~HasHeader(req, "Authorization")
    /\ (NoKeySet(env) /\ LauncherTokenCheck(env).ok) => phase # "failed"

\* C7: after construction the signing flag is true exactly when both keys are
\* present and non-empty, and a configuration with exactly one of the two
\* never gets past start-up: nothing is constructed, no session, no request.
C7_SigningIffBothKeys ==
    /\ phase \in {"constructed", "running", "closed"} => (hmac <=> BothKeysSet(env))
    /\ ExactlyOneKeySet(env) =>
           /\ phase \in {"boot", "failed"}
           /\ session = "none"
           /\ Dispatched = {}
W7_ConstructedWithSigning ==
    /\ phase = "running"
    /\ hmac
    /\ BothKeysSet(env)
    /\ \E req \in Dispatched : HasHeader(req, "Authorization")

\* C9: a failure of any step of the localisation pipeline is caught: on_ready
\* completes without propagating an error.
C9_OnReadyNeverRaises ==
    \A i \in OnReadyIds : ready[i].pc # "raised" /\ ready[i].result.kind # "raised"

\* C10: over any sequence of on_ready events the pipeline is started exactly
\* once and the localisation map is assigned at most once, as the complete
\* mapping built from the bundle the pipeline received.
C10_PipelineOnce ==
    /\ pipelineRuns <= 1
    /\ (\E i \in OnReadyIds : ready[i].pc # "pending") => pipelineRuns = 1
    /\ mapWrites <= 1
    /\ ~unit_name_map.set => (mapWrites = 0 /\ unit_name_map.map = <<>>)
    /\ unit_name_map.set =>
           /\ mapWrites = 1
           /\ \E i \in OnReadyIds :
                  /\ ready[i].pc \in {"returned", "raised"}
                  /\ ready[i].bundle # PyNone
                  /\ DecodeBundle(ready[i].bundle).ok
                  /\ ~BuildUnitNameMap(DecodeBundle(ready[i].bundle).locale).raised
                  /\ unit_name_map.map =
                         BuildUnitNameMap(DecodeBundle(ready[i].bundle).locale).map
W10_ReconnectAndMapAssigned ==
    /\ \A i \in OnReadyIds : ready[i].pc = "returned"
    /\ pipelineRuns = 1
    /\ unit_name_map.set
    /\ DOMAIN unit_name_map.map = {<<"UNIT_", "a", "_NAME">>, <<"UNIT_", "_NAME">>}

(***************************************************************************)
(* The parser against its description                                      *)
(***************************************************************************)
\* the entry a line contributes when it is split at its first "|"
KeyOf(line) == SubSeq(line, 1, FirstIndex(line, "|") - 1)
DescriptionOf(line) == SubSeq(line, FirstIndex(line, "|") + 1, Len(line))
IsUnitNameLine(line) ==
    /\ ~StartsWith(line, <<"#">>)
    /\ Contains(line, "|")
    /\ StartsWith(KeyOf(line), <<"UNIT_">>)
    /\ EndsWith(KeyOf(line), <<"_NAME">>)
RECURSIVE DescribedMap(_, _, _)
DescribedMap(lines, i, map) ==
    IF i > Len(lines) THEN map
    ELSE DescribedMap(lines, i + 1,
             IF IsUnitNameLine(lines[i])
             THEN MapPut(map, KeyOf(lines[i]), DescriptionOf(lines[i]))
             ELSE map)

\* C8: the parser yields one entry key -> description for each line that is
\* not a comment, has a "|", and whose key (before the first "|") begins with
\* UNIT_ and ends with _NAME, the description being everything after the first
\* "|"; every other line is ignored without an error.
C8_ParserMatchesDescription ==
    parseOut.run =>
        /\ ~parseOut.raised
        /\ parseOut.map = DescribedMap(Split(parseIn, "\n"), 1, <<>>)

(***************************************************************************)
(* Version resolution and the leaderboard tables                           *)
(***************************************************************************)
\* the id carried by a localization request
BundleIdOf(req) == DictGet(DictGet(req.json, "payload"), "id")
ResolvedFrom(req, metadata) ==
    /\ req.endpoint = "localization"
    /\ metadata # PyNone
    /\ DictHas(metadata, "latestLocalizationBundleVersion")
    /\ BundleIdOf(req) = DictGet(metadata, "latestLocalizationBundleVersion")

\* C11: when a localization bundle is fetched without a caller-supplied id, or
\* by the localisation pipeline, the metadata request is answered before the
\* localization POST is made, and that POST carries the
\* latestLocalizationBundleVersion of that metadata response as its id.
C11_BundleIdFromMetadata ==
    /\ (call.op = "get_localization" /\ ~Truthy(Arg(call.kw, "id", PyNone))) =>
           /\ call.pc = "await_meta" =>
                  (call.req.endpoint = "metadata" /\ call.metadata = PyNone)
           /\ call.pc = "await_post" => ResolvedFrom(call.req, call.metadata)
    /\ \A i \in OnReadyIds :
           /\ ready[i].pc = "await_meta" =>
                  (ready[i].req.endpoint = "metadata" /\ ready[i].metadata = PyNone)
           /\ ready[i].pc = "await_bundle" => ResolvedFrom(ready[i].req, ready[i].metadata)
W11_BundleRequestedAfterMetadata ==
    /\ call.op = "get_localization"
    /\ call.pc = "await_post"
    /\ Arg(call.kw, "id", PyNone) = PyNone
    /\ DictGet(call.metadata, "latestGamedataVersion") = PyStr("1.2.3")
    /\ BundleIdOf(call.req) = PyStr("en_v9")
    /\ \E i \in OnReadyIds :
           ready[i].pc = "await_bundle" /\ BundleIdOf(ready[i].req) = PyStr("en_v10")

\* the spellings of the table names among the names explored
LeagueTableSpellings == {"kyber", "Kyber", "chromium", "CHROMIUM"}
DivisionTableKeys == {"1", "2", "3", "4", "5"}
UnknownLeagueName(league) == IsInstanceStr(league) /\ league.v \notin LeagueTableSpellings
UnknownDivisionName(division) ==
    IsInstanceStr(division) /\ division.v \notin DivisionTableKeys

\* C12: a get_leaderboard call with a league name that is not in the league
\* table, or a division name that is not in the division table, ends with an
\* error without having made a request.
C12_UnknownNameNeverDispatched ==
    (call.op = "get_leaderboard"
     /\ (UnknownLeagueName(Arg(call.kw, "league", PyNone))
         \/ UnknownDivisionName(Arg(call.kw, "division", PyNone))))
    => /\ call.pc = "done"
       /\ call.result.kind = "raised"
       /\ call.req = NoRequest
       /\ call.sent = 0
W12_UnknownLeagueRejected ==
    /\ call.op = "get_leaderboard"
    /\ Arg(call.kw, "league", PyNone) = PyStr("mythril")
    /\ call.result = Raised("KeyError")
    /\ call.sent = 0

\* the codes of the two tables for the values explored
LeagueCode(league) ==
    CASE league.v \in {"kyber", "Kyber"} -> PyInt(100)
      [] league.v \in {"chromium", "CHROMIUM"} -> PyInt(60)
      [] OTHER -> PyNone
DivisionCode(division) ==
    CASE Fmt(division) = "1" -> PyInt(25)
      [] Fmt(division) = "2" -> PyInt(20)
      [] Fmt(division) = "3" -> PyInt(15)
      [] Fmt(division) = "4" -> PyInt(10)
      [] Fmt(division) = "5" -> PyInt(5)
      [] OTHER -> PyNone

\* C13: the league and the division of the payload of a type-6 leaderboard
\* request are numeric codes, a league name being mapped through the league
\* table without regard to case and a division given as a single digit or as a
\* string key through the division table.
C13_Type6CodesAreNumeric ==
    (call.op = "get_leaderboard" /\ call.pc = "await_post"
     /\ Arg(call.kw, "leaderboard_type", PyNone) = PyInt(6))
    => LET inner == DictGet(call.req.json, "payload")
           league == Arg(call.kw, "league", PyNone)
           division == Arg(call.kw, "division", PyNone)
       IN /\ IsInstanceInt(DictGet(inner, "league"))
          /\ IsInstanceInt(DictGet(inner, "division"))
          /\ IsInstanceStr(league) => DictGet(inner, "league") = LeagueCode(league)
          /\ (IsInstanceStr(division) \/ Len(Fmt(division)) = 1) =>
                 DictGet(inner, "division") = DivisionCode(division)

(***************************************************************************)
(* Aliases, decoding and failures                                          *)
(***************************************************************************)
AliasedOperations ==
    { <<"get_player_arena", "player_details_only", "playerDetailsOnly">>,
      <<"get_guild", "include_recent_guild_activity_info", "includeRecent">> }

\* C14: when get_player_arena or get_guild is called with its deprecated
\* keyword, whatever the value, the wrapped operation is entered without the
\* deprecated keyword and with the canonical parameter set to its value, and
\* the call does not fail on an unexpected argument.
C14_AliasAlwaysReplacesCanonical ==
    \A a \in AliasedOperations :
        (call.op = a[1] /\ DictHas(call.args, a[3])) =>
            /\ ~DictHas(call.kw, a[3])
            /\ Arg(call.kw, a[2], PyNone) = DictGet(call.args, a[3])
            /\ call.result # Raised("TypeError")

RequiredPlayerKeys == {"name", "allyCode", "playerId", "rosterUnit"}

\* C15: get_player never returns a record that lacks a required top-level key
\* of the player record (name, allyCode, playerId, rosterUnit).
C15_ReturnedPlayerIsComplete ==
    (call.op = "get_player" /\ call.pc = "done" /\ call.result.kind = "ok") =>
        \A k \in RequiredPlayerKeys : DictHas(call.result.value, k)

IsRemoteCallFailed(error, endpoint) ==
    /\ error.t = "dict"
    /\ DictHas(error, "endpoint")
    /\ DictGet(error, "endpoint") = PyStr(endpoint)
    /\ DictHas(error, "cause")
    /\ DictGet(error, "cause").v \in TransportErrors

C17_FailedRequestNotRetried ==
    [][/\ CallFailure =>
              /\ call'.pc = "done"
              /\ call'.result.kind = "raised"
              /\ call'.req = NoRequest
              /\ call'.sent = call.sent
       /\ call.pc = "done" => (call'.req = NoRequest /\ call'.sent \in {0, call.sent})
       /\ \A i \in OnReadyIds :
              /\ PipelineFailure(i) =>
                     /\ ready'[i].result.kind = "raised"
                     /\ ready'[i].req = NoRequest
              /\ ready[i].pc \in {"returned", "raised"} => ready'[i] = ready[i]]_vars
W17_SecondRequestFailedOnce ==
    /\ call.op = "get_localization"
    /\ call.pc = "done"
    /\ call.sent = 2
    /\ call.result = Raised("ClientConnectionError")
    /\ \E i \in OnReadyIds :
           ready[i].pc = "raised" /\ ready[i].result = Raised("ClientConnectionError")

(***************************************************************************)
(* Signing inputs and the client's configuration                           *)
(***************************************************************************)
SignatureOver(secret, req_time, path, payload_string) ==
    HmacSha256Hex(secret, req_time \o "POST" \o path \o Md5Hex(payload_string))
SignedRequests == {req \in Dispatched : req.signed.on}

\* C18: the Authorization header of a signed request is determined by the
\* secret key, the access key, the request time, the path and the body that
\* were signed, so two requests that agree on these carry the same value, and
\* the X-Date header is the request-time string that was fed into the HMAC.
C18_SigningHasNoHiddenInput ==
    /\ \A req \in SignedRequests :
           /\ HasHeader(req, "X-Date")
           /\ DictGet(req.headers, "X-Date") = PyStr(req.signed.req_time)
           /\ HasHeader(req, "Authorization")
           /\ DictGet(req.headers, "Authorization") =
                  PyStr("HMAC-SHA256 Credential=" \o Fmt(config["ACCESS_KEY"])
                        \o ",Signature="
                        \o SignatureOver(Fmt(config["SECRET_KEY"]), req.signed.req_time,
                                         req.signed.path, req.signed.payload_string))
    /\ \A r1, r2 \in SignedRequests :
           (r1.signed = r2.signed) =>
               DictGet(r1.headers, "Authorization") = DictGet(r2.headers, "Authorization")
W18_TwoSignedRequestsInFlight ==
    /\ call.op = "get_game_metadata"
    /\ call.req.signed.on
    /\ call.req.signed.req_time = "1001"
    /\ \E i \in OnReadyIds :
           /\ ready[i].pc = "await_meta"
           /\ ready[i].req.signed = call.req.signed
           /\ DictGet(ready[i].req.headers, "X-Date") = PyStr("1001")

QueryFreePaths ==
    {"/api", "/metadata", "/data", "/localization", "/getEvents", "/player", "/playerArena",
     "/guild", "/getGuilds", "/getLeaderboard", "/getGuildLeaderboard"}

\* C19: the path fed into the HMAC of a signed request is the endpoint path
\* with its leading slash and without a query string.
C19_SignedPathHasNoQuery ==
    \A req \in SignedRequests : req.signed.path \in QueryFreePaths

\* the request is the one its operation builds from the configuration alone
FromConfiguration(req, op) ==
    LET base == IF op = "get_unit_stats" THEN Fmt(config["STATS_URL"])
                ELSE Fmt(config["COMLINK_URL"])
    IN /\ req.base = base
       /\ req.url = base \o "/" \o req.endpoint
       /\ req.method = "POST" =>
              /\ req.signed.on <=> (Truthy(config["ACCESS_KEY"]) /\ Truthy(config["SECRET_KEY"]))
              /\ req.body = TransmittedBody(req.json)

\* C20: no step taken while the client serves requests changes url_base,
\* stats_url_base, the signing flag or the configuration, and every request in
\* flight, whatever other calls are in flight with it, has the URL, the
\* signing and the body that its operation builds from the configuration.
C20_RequestsLeaveClientUntouched ==
    [][(phase = "running" /\ phase' = "running") =>
           /\ UNCHANGED <<config, hmac, url_base, stats_url_base>>
           /\ (call'.req # NoRequest /\ call'.op # "on_submit") =>
                  FromConfiguration(call'.req, call'.op)
           /\ \A i \in OnReadyIds :
                  ready'[i].req # NoRequest =>
                      FromConfiguration(ready'[i].req, "create_localised_unit_name_dictionary")
      ]_vars
W20_StatsCallBesidePipeline ==
    /\ call.op = "get_unit_stats"
    /\ call.pc = "await_post"
    /\ call.req.base = "http://stats:3223"
    /\ \E i \in OnReadyIds :
           ready[i].pc = "await_bundle" /\ ready[i].req.base = "http://comlink:3000"
    /\ url_base = "http://comlink:3000"

(***************************************************************************)
(* The session, version resolution of get_game_data, the frame of a        *)
(* failed pipeline run and the onboarding modal                            *)
(***************************************************************************)
\* this step hands a request to the session
RequestIssued ==
    \/ call'.req # NoRequest /\ call'.req # call.req
    \/ \E i \in OnReadyIds : ready'[i].req # NoRequest /\ ready'[i].req # ready[i].req
\* this step consumes the answer to a request
RequestAnswered ==
    \/ call.req # NoRequest /\ call'.req # call.req /\ call'.result.kind # "raised"
    \/ \E i \in OnReadyIds :
           /\ ready[i].req # NoRequest
           /\ ready'[i].req # ready[i].req
           /\ ready'[i].pc \in {"await_bundle", "returned"}

\* C21: the session is acquired once, when the bot starts, and is released
\* when start() is left, by return or by exception; every request of the
\* client, of the pipeline and of the onboarding modal is handed to the
\* session, and answered, while the session is open.
C21_OneSessionForEveryRequest ==
    [][/\ session' # session =>
              \/ session = "none" /\ session' = "open"
                 /\ phase = "constructed" /\ phase' = "running"
              \/ session = "open" /\ session' = "closed"
       /\ phase' = "running" => session' = "open"
       /\ phase' = "closed" => session' = "closed"
       /\ phase' \in {"boot", "failed", "constructed"} => session' = "none"
       /\ RequestIssued => (session = "open" /\ session' = "open")
       /\ RequestAnswered => (session = "open" /\ session' = "open")]_vars
W21_ReleasedAfterFailedStart ==
    /\ phase = "closed"
    /\ startupError = "LoginFailure"
    /\ session = "closed"
    /\ call.op = "on_submit"
    /\ call.pc = "done"
    /\ call.sent = 1
    /\ call.result.kind = "ok"
    /\ unit_name_map.set
    /\ \E i \in OnReadyIds : ready[i].pc = "returned" /\ ready[i].bundle # PyNone

\* C22: get_game_data called without a version makes its data POST only
\* after a metadata request has been answered, and the version of the data
\* payload is the latestGamedataVersion of that answer.
C22_GameDataVersionResolved ==
    (call.op = "get_game_data" /\ call.pc = "await_post"
     /\ Arg(call.kw, "version", PyStr("")) = PyStr(""))
    => /\ call.metadata # PyNone
       /\ DictHas(call.metadata, "latestGamedataVersion")
       /\ DictGet(DictGet(call.req.json, "payload"), "version")
              = DictGet(call.metadata, "latestGamedataVersion")

\* the pipeline run of task i ends in this step by raising
PipelineRaises(i) ==
    ready[i].pc \in {"await_meta", "await_bundle"} /\ ready'[i].pc = "raised"

\* C23: a pipeline run that fails before the file is opened for writing leaves
\* the localisation map and the asset file as they were, and the map is
\* assigned, and the file written, only from the mapping built from the whole
\* locale text.
C23_FailedRunLeavesMapAndFile ==
    [][/\ \A i \in OnReadyIds :
              (PipelineRaises(i) /\ ready'[i].result # Raised("FileNotFoundError")) =>
                  UNCHANGED <<unit_name_map, asset>>
       /\ (unit_name_map' # unit_name_map \/ asset' # asset) =>
              \E i \in OnReadyIds :
                  /\ ready[i].pc = "await_bundle"
                  /\ ready'[i].bundle # PyNone
                  /\ DecodeBundle(ready'[i].bundle).ok
                  /\ ~BuildUnitNameMap(DecodeBundle(ready'[i].bundle).locale).raised
                  /\ unit_name_map' =
                         [set |-> TRUE,
                          map |-> BuildUnitNameMap(DecodeBundle(ready'[i].bundle).locale).map]
                  /\ asset' # asset =>
                         asset' = [written |-> TRUE, map |-> unit_name_map'.map]]_vars
W23_ParseFailureLeftNothing ==
    /\ \E i \in OnReadyIds :
           /\ ready[i].pc = "raised"
           /\ ready[i].result = Raised("ValueError")
           /\ DecodeBundle(ready[i].bundle).ok
    /\ ~unit_name_map.set
    /\ unit_name_map.map = <<>>
    /\ ~asset.written

\* the nine digits an accepted input holds
NineDigitsOf(value) == SubSeq(SelectSeq(value, LAMBDA c : c \in Digits), 1, 9)

\* C24: an input of the onboarding modal that is_valid_ally_code or
\* is_swgoh_gg_link accepts leads to a profile lookup for the nine digits it
\* holds, leading zeros included, and never to the invalid-input message.
C24_AcceptedInputLookedUp ==
    (call.op = "on_submit" /\ DictHas(call.kw, "value")) =>
        LET value == DictGet(call.kw, "value").v
        IN (IsValidAllyCode(value) \/ IsSwgohGgLink(value)) =>
               /\ call.result # Returned(PyStr(InvalidResponse))
               /\ call.pc = "await_post"
               /\ call.req.url = GgPrefix \o Text(NineDigitsOf(value)) \o "/"

====
